---- MODULE Spec2Model ----
(***************************************************************************)
(* express-simple-static-blog: the metadata extractor (BlogParser) and the *)
(* in-memory blog index (BlogCache), with the source directory as the      *)
(* environment.                                                            *)
(*                                                                         *)
(* Text.  A JavaScript string is a sequence of one-character strings, so   *)
(* that regular expressions, split, trim and parseInt are computed on the  *)
(* characters.  File content is a sequence of the lexical units the        *)
(* extractor's regular expressions recognise: an optional front-matter     *)
(* block (lines "key: value") at the very start, then comment markers      *)
(* <!-- [key: value] -->, <title> elements and other text.                 *)
(***************************************************************************)
EXTENDS Integers, Sequences, FiniteSets, TLC

\* The JavaScript value undefined: a value that differs from every string.
Undefined == <<"undefined">>

\* JavaScript truthiness of a string-or-undefined value.
Truthy(v) == v # Undefined /\ v # <<>>

Digits == {"0", "1", "2", "3", "4", "5", "6", "7", "8", "9"}

DigitVal(c) ==
  CASE c = "0" -> 0 [] c = "1" -> 1 [] c = "2" -> 2 [] c = "3" -> 3
    [] c = "4" -> 4 [] c = "5" -> 5 [] c = "6" -> 6 [] c = "7" -> 7
    [] c = "8" -> 8 [] c = "9" -> 9

\* \s of a regular expression, and the characters String.prototype.trim strips.
WhiteSpace == {" ", "\t", "\n"}

UpperSeq ==
  <<"A","B","C","D","E","F","G","H","I","J","K","L","M",
    "N","O","P","Q","R","S","T","U","V","W","X","Y","Z">>

LowerSeq ==
  <<"a","b","c","d","e","f","g","h","i","j","k","l","m",
    "n","o","p","q","r","s","t","u","v","w","x","y","z">>

\* \w of a regular expression.
WordChars ==
  {UpperSeq[i] : i \in 1..26} \cup {LowerSeq[i] : i \in 1..26} \cup Digits \cup {"_"}

ToLowerChar(c) ==
  IF \E i \in 1..26 : UpperSeq[i] = c
  THEN LowerSeq[CHOOSE i \in 1..26 : UpperSeq[i] = c]
  ELSE c

\* String.prototype.toLowerCase
ToLowerCase(s) == [i \in 1..Len(s) |-> ToLowerChar(s[i])]

RECURSIVE TrimLeft(_)
TrimLeft(s) ==
  IF s # <<>> /\ Head(s) \in WhiteSpace THEN TrimLeft(Tail(s)) ELSE s

RECURSIVE TrimRight(_)
TrimRight(s) ==
  IF s # <<>> /\ s[Len(s)] \in WhiteSpace
  THEN TrimRight(SubSeq(s, 1, Len(s) - 1))
  ELSE s

\* String.prototype.trim
Trim(s) == TrimRight(TrimLeft(s))

\* String.prototype.indexOf for one character, 1-based; 0 when absent.
IndexOf(s, c) ==
  IF \E i \in 1..Len(s) : s[i] = c
  THEN CHOOSE i \in 1..Len(s) : s[i] = c /\ \A j \in 1..(i - 1) : s[j] # c
  ELSE 0

\* String.prototype.split on one character.
RECURSIVE Split(_, _)
Split(s, c) ==
  LET i == IndexOf(s, c)
  IN IF i = 0
     THEN <<s>>
     ELSE <<SubSeq(s, 1, i - 1)>> \o Split(SubSeq(s, i + 1, Len(s)), c)

\* String.prototype.endsWith
EndsWith(s, suffix) ==
  /\ Len(s) >= Len(suffix)
  /\ SubSeq(s, Len(s) - Len(suffix) + 1, Len(s)) = suffix

\* String.prototype.includes
Includes(s, sub) ==
  \E i \in 0..(Len(s) - Len(sub)) : SubSeq(s, i + 1, i + Len(sub)) = sub

(***************************************************************************)
(* Numbers.  A result of parseInt is a number or NaN; NaN equals nothing,  *)
(* itself included.                                                        *)
(***************************************************************************)
NaN == [nan |-> TRUE, n |-> 0]

Num(n) == [nan |-> FALSE, n |-> n]

\* The === of two numbers.
StrictEq(a, b) == ~a.nan /\ ~b.nan /\ a.n = b.n

\* The value of the longest prefix of decimal digits of s, after acc.
RECURSIVE DigitsValue(_, _)
DigitsValue(s, acc) ==
  IF s # <<>> /\ Head(s) \in Digits
  THEN DigitsValue(Tail(s), acc * 10 + DigitVal(Head(s)))
  ELSE acc

\* parseInt(v, 10) of a string or undefined: leading white space is skipped,
\* a sign is read, then the longest digit prefix; NaN when there is none.
ParseInt(v) ==
  IF v = Undefined THEN NaN
  ELSE LET t == TrimLeft(v)
           signed == t # <<>> /\ Head(t) \in {"-", "+"}
           u == IF signed THEN Tail(t) ELSE t
       IN IF u = <<>> \/ Head(u) \notin Digits THEN NaN
          ELSE IF signed /\ Head(t) = "-"
               THEN Num(0 - DigitsValue(u, 0))
               ELSE Num(DigitsValue(u, 0))

(***************************************************************************)
(* Dates.                                                                  *)
(***************************************************************************)
\* Days from 1970-01-01 of the proleptic Gregorian date (y, m, d), m in 1..12;
\* d may lie outside the month, the day number then runs on.
DaysFromCivil(y, m, d) ==
  LET yy == IF m <= 2 THEN y - 1 ELSE y
      era == yy \div 400
      yoe == yy - era * 400
      mp == IF m > 2 THEN m - 3 ELSE m + 9
      doy == (153 * mp + 2) \div 5 + d - 1
      doe == yoe * 365 + yoe \div 4 - yoe \div 100 + doy
  IN era * 146097 + doe - 719468

\* The Gregorian date of a day number.
CivilFromDays(z) ==
  LET zz == z + 719468
      era == zz \div 146097
      doe == zz - era * 146097
      yoe == (doe - doe \div 1460 + doe \div 36524 - doe \div 146096) \div 365
      doy == doe - (365 * yoe + yoe \div 4 - yoe \div 100)
      mp == (5 * doy + 2) \div 153
      d == doy - (153 * mp + 2) \div 5 + 1
      m == IF mp < 10 THEN mp + 3 ELSE mp - 9
      y == yoe + era * 400 + (IF m <= 2 THEN 1 ELSE 0)
  IN [year |-> y, month |-> m, day |-> d]

\* What getFullYear, getMonth and getDate return for a Gregorian date.
DateFields(c) == [fullYear |-> c.year, month |-> c.month - 1, date |-> c.day]

\* new Date(year, monthIndex, day) in local time, read back with getFullYear,
\* getMonth and getDate: a year 0..99 means 1900 + year, and a month index or
\* day outside its range carries into the neighbouring month or year.
JsDateLocal(year, monthIndex, day) ==
  LET yr == IF year >= 0 /\ year <= 99 THEN 1900 + year ELSE year
      ym == yr + (IF monthIndex < 0 THEN -1 ELSE monthIndex \div 12)
      mn == IF monthIndex < 0 THEN monthIndex + 12 ELSE monthIndex % 12
  IN DateFields(CivilFromDays(DaysFromCivil(ym, mn + 1, 1) + day - 1))

\* /^(\d{4})-(\d{2})-(\d{2})$/
MatchesDateRegex(s) ==
  /\ Len(s) = 10
  /\ \A i \in {1, 2, 3, 4, 6, 7, 9, 10} : s[i] \in Digits
  /\ s[5] = "-"
  /\ s[8] = "-"

\* isValidDate without the comparison with the date built from the parts.
isValidDateBySyntax(dateString) ==
  Truthy(dateString) /\ MatchesDateRegex(dateString)

\* BlogParser.isValidDate
isValidDate(dateString) ==
  IF ~Truthy(dateString) THEN FALSE
  ELSE IF ~MatchesDateRegex(dateString) THEN FALSE
  ELSE LET year == DigitsValue(SubSeq(dateString, 1, 4), 0)
           month == DigitsValue(SubSeq(dateString, 6, 7), 0)
           day == DigitsValue(SubSeq(dateString, 9, 10), 0)
       IN JsDateLocal(year, month - 1, day) =
            [fullYear |-> year, month |-> month - 1, date |-> day]

\* new Date(s) for a date-only ISO string is UTC midnight of the day; this is
\* its day number, getTime() being 86 400 000 times it.  The sort reads it only
\* for dates that passed isValidDate.
DateTime(s) ==
  DaysFromCivil(DigitsValue(SubSeq(s, 1, 4), 0),
                DigitsValue(SubSeq(s, 6, 7), 0),
                DigitsValue(SubSeq(s, 9, 10), 0))

(***************************************************************************)
(* BlogParser.                                                             *)
(*                                                                         *)
(* A file content is [hasFm, fm, body].  hasFm says that the content       *)
(* starts with a front-matter block, and fm holds its lines: sep says that *)
(* the line has a colon after its first character, key is the trimmed text *)
(* before the first colon and val the raw text after it.  body holds the   *)
(* units of the whole text in order: tag "meta" is a comment marker        *)
(* <!-- [key: val] -->, tag "title" a <title>val</title> element, tag      *)
(* "text" anything else; val is the text the regular expression captures.  *)
(* The lines of a front-matter block hold no marker and no title element.  *)
(***************************************************************************)
\* The keys the extractors know, and the names of the fields parseFile itself
\* puts on a record.
kDate == <<"d","a","t","e">>

kDesc == <<"d","e","s","c">>

kDescription == <<"d","e","s","c","r","i","p","t","i","o","n">>

kTitle == <<"t","i","t","l","e">>

kFileName == <<"f","i","l","e","N","a","m","e">>

kFilePath == <<"f","i","l","e","P","a","t","h">>

kContent == <<"c","o","n","t","e","n","t">>

kYear == <<"y","e","a","r">>

kMonth == <<"m","o","n","t","h">>

kDay == <<"d","a","y">>

kSlug == <<"s","l","u","g">>

CoreFields ==
  {kFileName, kFilePath, kDate, kTitle, kDesc, kContent, kYear, kMonth, kDay, kSlug}

Meta(key, val) == [tag |-> "meta", key |-> key, val |-> val]

TitleTag(val) == [tag |-> "title", key |-> <<>>, val |-> val]

Text(val) == [tag |-> "text", key |-> <<>>, val |-> val]

FmLine(key, val) == [sep |-> TRUE, key |-> key, val |-> val]

\* A front-matter line without a colon, or with the colon first.
FmNoColon(val) == [sep |-> FALSE, key |-> <<>>, val |-> val]

Html(body) == [hasFm |-> FALSE, fm |-> <<>>, body |-> body]

FrontMatter(fm, body) == [hasFm |-> TRUE, fm |-> fm, body |-> body]

\* The least index at which a sequence of truth values holds TRUE; 0 when
\* there is none.  The sequence says for each element whether the regular
\* expression or the callback of find accepts it.
FirstIndex(flags) ==
  IF \E i \in DOMAIN flags : flags[i]
  THEN CHOOSE i \in DOMAIN flags : flags[i] /\ \A j \in 1..(i - 1) : ~flags[j]
  ELSE 0

\* The greatest such index; 0 when there is none.
LastIndex(flags) ==
  IF \E i \in DOMAIN flags : flags[i]
  THEN CHOOSE i \in DOMAIN flags :
         flags[i] /\ \A j \in DOMAIN flags : j > i => ~flags[j]
  ELSE 0

\* content.match(/<title>(.+?)<\/title>/): the first title element, trimmed.
TitleFromTag(content, otherwise) ==
  LET i == FirstIndex([n \in 1..Len(content.body) |->
                           content.body[n].tag = "title"])
  IN IF i = 0 THEN otherwise ELSE Trim(content.body[i].val)

\* BlogParser.parseHtmlCommentMetadata
parseHtmlCommentMetadata(content) ==
  LET body == content.body
      di == FirstIndex([n \in 1..Len(body) |->
                          body[n].tag = "meta" /\ body[n].key = kDate])
      ei == FirstIndex([n \in 1..Len(body) |->
                          body[n].tag = "meta" /\ body[n].key = kDesc])
      keys == {body[i].key : i \in {j \in 1..Len(body) :
                 body[j].tag = "meta" /\ body[j].key \notin {kDate, kDesc}}}
  IN [date |-> IF di = 0 THEN Undefined ELSE Trim(body[di].val),
      desc |-> IF ei = 0 THEN Undefined ELSE Trim(body[ei].val),
      title |-> TitleFromTag(content, Undefined),
      extra |-> [k \in keys |->
                  Trim(body[LastIndex([n \in 1..Len(body) |->
                         body[n].tag = "meta" /\ body[n].key = k])].val)]]

\* The value the loop over the front-matter lines leaves in a field that the
\* keys of ks assign: the last assignment stays.
FmField(fm, ks) ==
  LET i == LastIndex([n \in 1..Len(fm) |-> fm[n].sep /\ fm[n].key \in ks])
  IN IF i = 0 THEN Undefined ELSE Trim(fm[i].val)

\* parseFrontMatterMetadata on a content with a front-matter block: the
\* fields the lines of the block assign, and the title of the HTML when the
\* block gives none.
FrontMatterFields(content) ==
  LET fm == content.fm
      keys == {fm[i].key : i \in {j \in 1..Len(fm) :
                 fm[j].sep /\ fm[j].key \notin
                   {kDate, kTitle, kDescription, kDesc}}}
      title == FmField(fm, {kTitle})
  IN [date |-> FmField(fm, {kDate}),
      desc |-> FmField(fm, {kDescription, kDesc}),
      title |-> IF ~Truthy(title) THEN TitleFromTag(content, title)
                ELSE title,
      extra |-> [k \in keys |-> FmField(fm, {k})]]

\* The front-matter strategy without its fallback to the HTML comments.
parseFrontMatterOnly(content) == FrontMatterFields(content)

\* BlogParser.parseFrontMatterMetadata
parseFrontMatterMetadata(content) ==
  IF ~content.hasFm THEN parseHtmlCommentMetadata(content)
  ELSE FrontMatterFields(content)

\* Every maximal run of characters of set becomes one hyphen.
RECURSIVE CollapseRuns(_, _)
CollapseRuns(s, set) ==
  IF s = <<>> THEN <<>>
  ELSE IF Head(s) \in set
       THEN IF Len(s) > 1 /\ s[2] \in set
            THEN CollapseRuns(Tail(s), set)
            ELSE <<"-">> \o CollapseRuns(Tail(s), set)
       ELSE <<Head(s)>> \o CollapseRuns(Tail(s), set)

\* BlogParser.generateSlug
generateSlug(title) ==
  LET lower == ToLowerCase(title)
      kept == SelectSeq(lower,
                LAMBDA c : c \in WordChars \cup WhiteSpace \cup {"-"})
      dashed == CollapseRuns(kept, WhiteSpace)
      single == CollapseRuns(dashed, {"-"})
  IN Trim(single)

\* config.blogsDir, an absolute path.
blogsDir == <<"/", "b">>

\* path.join(blogsDir, file)
PathJoin(dir, file) == dir \o <<"/">> \o file

\* this.metadataParsers[config.metadataFormat] || this.metadataParsers['html-comment']
\* The names this.metadataParsers has without having been given them: a
\* plain object inherits them from Object.prototype, as functions that take
\* the content and return a value without date, title, desc or extra.
InheritedParsers == {"constructor", "toString"}

\* What parseFile reads from such a value: every field undefined, and
\* nothing to spread.
NoMetadata ==
  [date |-> Undefined, desc |-> Undefined, title |-> Undefined,
   extra |-> [k \in {} |-> <<>>]]

\* const parser = this.metadataParsers[format] || this.metadataParsers['html-comment'];
\* const metadata = parser(fileContent)
ExtractMetadata(format, content) ==
  IF format = "html-comment" THEN parseHtmlCommentMetadata(content)
  ELSE IF format = "front-matter" THEN parseFrontMatterMetadata(content)
  ELSE IF format \in InheritedParsers THEN NoMetadata
  ELSE parseHtmlCommentMetadata(content)

\* The record parseFile returns for the metadata it extracted.  The spread of
\* metadata.extra comes last, so an extra key with the name of a core field
\* replaces that field; the other extra keys are in extra.
BlogRecord(fileName, fileContent, metadata) ==
  LET parts == IF Truthy(metadata.date) THEN Split(metadata.date, "-")
               ELSE <<>>
      three == Len(parts) = 3
      extra == metadata.extra
      Merged(k, v) == IF k \in DOMAIN extra THEN extra[k] ELSE v
  IN [fileName |-> Merged(kFileName, fileName),
      filePath |-> Merged(kFilePath, PathJoin(blogsDir, fileName)),
      date |-> Merged(kDate,
                 IF Truthy(metadata.date) THEN metadata.date
                 ELSE <<"N","o"," ","d","a","t","e"," ","f","o","u","n","d">>),
      title |-> Merged(kTitle,
                  IF Truthy(metadata.title) THEN metadata.title
                  ELSE <<"U","n","t","i","t","l","e","d">>),
      desc |-> Merged(kDesc,
                 IF Truthy(metadata.desc) THEN metadata.desc
                 ELSE <<"N","o"," ","d","e","s","c","r","i","p","t","i","o","n",
                        " ","a","v","a","i","l","a","b","l","e">>),
      content |-> IF kContent \in DOMAIN extra
                  THEN Html(<<Text(extra[kContent])>>)
                  ELSE fileContent,
      year |-> Merged(kYear, IF three THEN parts[1] ELSE Undefined),
      month |-> Merged(kMonth, IF three THEN parts[2] ELSE Undefined),
      day |-> Merged(kDay, IF three THEN parts[3] ELSE Undefined),
      slug |-> Merged(kSlug,
                 generateSlug(IF Truthy(metadata.title) THEN metadata.title
                              ELSE fileName)),
      extra |-> [k \in (DOMAIN extra) \ CoreFields |-> extra[k]]]

\* BlogParser.parseFile, after fs.readFileSync returned fileContent.
parseFile(format, fileName, fileContent) ==
  BlogRecord(fileName, fileContent, ExtractMetadata(format, fileContent))

(***************************************************************************)
(* The texts, files and directories the runs draw from.                    *)
(***************************************************************************)
d20 == <<"2","0","2","5","-","0","1","-","2","0">>

d15 == <<"2","0","2","5","-","0","1","-","1","5">>

d10 == <<"2","0","2","5","-","0","1","-","1","0">>

d20Spaced == <<"2","0","2","5","-","0","1","-","2","0"," ">>

dFeb30 == <<"2","0","2","5","-","0","2","-","3","0">>

dShort == <<"2","0","2","5","-","1","-","5">>

dYear50 == <<"0","0","5","0","-","0","6","-","1","5">>

dAbsent == <<"2","0","9","9","-","1","2","-","3","1">>

aHtml == <<"a",".","h","t","m","l">>

bHtm == <<"b",".","h","t","m">>

cHtml == <<"c",".","h","t","m","l">>

dHtml == <<"d",".","h","t","m","l">>

eHtml == <<"e",".","h","t","m","l">>

nTxt == <<"n",".","t","x","t">>

tTest == <<"T","e","s","t"," ","P","o","s","t">>

tOlder == <<"O","l","d","e","r"," ","P","o","s","t">>

tOldest == <<"O","l","d","e","s","t">>

tTwin == <<"T","w","i","n">>

tWhy == <<"W","h","y"," ","?">>

tFront == <<"F","r","o","n","t"," ","M","a","t","t","e","r">>

sDesc == <<"A"," ","t","e","s","t">>

sBody == <<"H","e","l","l","o"," ","b","o","d","y">>

kTags == <<"t","a","g","s">>

sTags == <<"x",","," ","y">>

sAbc == <<"a","b","c">>

s2025 == <<"2","0","2","5">>

s1999 == <<"1","9","9","9">>

s0 == <<"0">>

s2 == <<"2">>

s99 == <<"9","9">>

s01 == <<"0","1">>

s20 == <<"2","0">>

slugTest == <<"t","e","s","t","-","p","o","s","t">>

slugNone == <<"n","o","p","e">>

wTest == <<"T","E","S","T">>

wBody == <<"b","o","d","y">>

wNone == <<"z","z","z">>

\* The files, after the fixtures of the tests: a post with date, title and
\* description; posts without description, without title, without date; dates
\* that are no calendar date or not of the form YYYY-MM-DD; front matter.
fTest == Html(<<TitleTag(tTest), Meta(kDate, d20), Meta(kDesc, sDesc), Text(sBody)>>)

fOlder == Html(<<Meta(kDate, d15), TitleTag(tOlder)>>)

fOldest == Html(<<Meta(kDate, d10), Meta(kDesc, sDesc)>>)

fTwin == Html(<<TitleTag(tTwin), Meta(kDate, d20Spaced)>>)

fNoDate == Html(<<TitleTag(tOlder), Meta(kDesc, sDesc)>>)

fFeb30 == Html(<<TitleTag(tOlder), Meta(kDate, dFeb30)>>)

fShort == Html(<<TitleTag(tOlder), Meta(kDate, dShort)>>)

fYear50 == Html(<<TitleTag(tOlder), Meta(kDate, dYear50)>>)

fYearAbc == Html(<<TitleTag(tTest), Meta(kDate, d20), Meta(kYear, sAbc)>>)

\* A post whose title ends in a punctuation mark after a space.
fWhy == Html(<<TitleTag(tWhy), Meta(kDate, d20)>>)

\* A post whose title marker holds a blank: <!-- [title: ] -->.
fBlankTitle == Html(<<Meta(kDate, d10), Meta(kTitle, <<" ">>)>>)

fFront ==
  FrontMatter(<<FmLine(kDate, <<" ">> \o d15), FmLine(kTitle, <<" ">> \o tFront),
                FmLine(kDescription, <<" ">> \o sDesc), FmNoColon(sBody),
                FmLine(kTags, <<" ">> \o sTags)>>,
              <<Text(sBody)>>)

fFrontNoDate ==
  FrontMatter(<<FmLine(kTags, <<" ">> \o sTags)>>,
              <<TitleTag(tOldest), Meta(kDate, d10)>>)

\* A directory entry: its name, whether fs.readFileSync can read it, its content.
Entry(name, readable, content) ==
  [name |-> name, readable |-> readable, content |-> content]

\* The directories: missing; present but not listable (readdirSync throws);
\* empty; and listings, in the order readdirSync gives the names.
dirMissing == [exists |-> FALSE, listable |-> FALSE, entries |-> <<>>]

dirUnlistable == [exists |-> TRUE, listable |-> FALSE, entries |-> <<>>]

Listing(entries) == [exists |-> TRUE, listable |-> TRUE, entries |-> entries]

dirEmpty == Listing(<<>>)

dirFixture ==
  Listing(<<Entry(aHtml, TRUE, fOlder), Entry(dHtml, FALSE, fTwin),
            Entry(bHtm, TRUE, fTest), Entry(nTxt, TRUE, fTwin),
            Entry(eHtml, TRUE, fNoDate), Entry(cHtml, TRUE, fOldest)>>)

dirMalformed ==
  Listing(<<Entry(aHtml, TRUE, fNoDate), Entry(bHtm, TRUE, fFeb30),
            Entry(cHtml, FALSE, fTest), Entry(dHtml, TRUE, fShort),
            Entry(eHtml, TRUE, fYear50)>>)

dirTwins ==
  Listing(<<Entry(aHtml, TRUE, fTest), Entry(bHtm, TRUE, fOlder),
            Entry(cHtml, TRUE, fTwin), Entry(dHtml, TRUE, fYearAbc)>>)

dirFront ==
  Listing(<<Entry(aHtml, TRUE, fFront), Entry(bHtm, TRUE, fTest),
            Entry(cHtml, TRUE, fFrontNoDate)>>)

dirBlank ==
  Listing(<<Entry(aHtml, TRUE, fBlankTitle), Entry(bHtm, TRUE, fOlder),
            Entry(cHtml, TRUE, fWhy)>>)

\* The state of the source directory is one of these, by name.
Dirs ==
  {"missing", "unlistable", "empty", "fixture", "malformed", "twins", "front",
   "blank"}

Directory(name) ==
  CASE name = "missing" -> dirMissing
    [] name = "unlistable" -> dirUnlistable
    [] name = "empty" -> dirEmpty
    [] name = "fixture" -> dirFixture
    [] name = "malformed" -> dirMalformed
    [] name = "twins" -> dirTwins
    [] name = "front" -> dirFront
    [] name = "blank" -> dirBlank

\* The configurations: cache on or off, both sort orders, both metadata
\* formats.
Configs ==
  [cache : BOOLEAN, sortOrder : {"asc", "desc"},
   metadataFormat : {"html-comment", "front-matter"}]

\* Configurations whose metadataFormat names neither strategy: a name
\* unknown to the parser, and a name every object has.
OtherConfigs ==
  [cache : BOOLEAN, sortOrder : {"desc"},
   metadataFormat : {"markdown", "constructor"}]

AllConfigs == Configs \cup OtherConfigs

(***************************************************************************)
(* BlogCache.  The state: the configuration, the source directory, the     *)
(* index's collection and last-refresh time, the clock, and the call that  *)
(* has just returned.                                                      *)
(***************************************************************************)
VARIABLES
  config,       \* [cache, sortOrder, metadataFormat], fixed at construction
  fs,           \* the source directory: which of Dirs it is now
  cache,        \* this.cache: the collection, a sequence of records
  lastRefresh,  \* this.lastRefresh: <<>> is null, <<t>> the time t
  now,          \* the clock new Date() reads
  last          \* the call that has just returned: its name, arguments, result

vars == <<config, fs, cache, lastRefresh, now, last>>

\* The null a lookup returns.
Null == [null |-> TRUE]

\* file.endsWith('.html') || file.endsWith('.htm')
IsHtmlFile(file) ==
  \/ EndsWith(file, <<".", "h", "t", "m", "l">>)
  \/ EndsWith(file, <<".", "h", "t", "m">>)

\* The comparator without the sortOrder test.
compareBlogsDescending(sortOrder, a, b) == DateTime(b.date) - DateTime(a.date)

\* The comparator of the sort in refresh.
compareBlogs(sortOrder, a, b) ==
  LET dateA == DateTime(a.date)
      dateB == DateTime(b.date)
  IN IF sortOrder = "asc" THEN dateA - dateB ELSE dateB - dateA

\* x put into a sorted list after every element that does not come after it.
InsertAt(sorted, x, i) ==
  IF i = 0 THEN Append(sorted, x)
  ELSE SubSeq(sorted, 1, i - 1) \o <<x>> \o SubSeq(sorted, i, Len(sorted))

InsertSorted(sortOrder, sorted, x) ==
  InsertAt(sorted, x,
    FirstIndex([n \in 1..Len(sorted) |->
                  compareBlogs(sortOrder, sorted[n], x) > 0]))

\* Array.prototype.sort with compareBlogs: a stable sort.
RECURSIVE SortBlogs(_, _)
SortBlogs(sortOrder, blogs) ==
  IF blogs = <<>> THEN <<>>
  ELSE InsertSorted(sortOrder,
         SortBlogs(sortOrder, SubSeq(blogs, 1, Len(blogs) - 1)),
         blogs[Len(blogs)])

\* parseFile as refresh calls it: fs.readFileSync throws for a file that
\* cannot be read, and nothing after it throws.
TryParseFile(format, entry) ==
  IF entry.readable
  THEN [threw |-> FALSE, blog |-> parseFile(format, entry.name, entry.content)]
  ELSE [threw |-> TRUE, blog |-> Null]

\* The callback of the map without its try/catch.
Uncaught(r) == r

\* The callback of the map in refresh: its try/catch turns a parseFile that
\* throws into null.
Caught(r) == IF r.threw THEN [threw |-> FALSE, blog |-> Null] ELSE r

MapCallback(format, entry) == Caught(TryParseFile(format, entry))

\* The filter of refresh.
KeepBlog(blog) == blog # Null /\ isValidDate(blog.date)

\* files.filter(...).map(...) of refresh.
MapFiles(format, htmlFiles) ==
  [i \in 1..Len(htmlFiles) |-> MapCallback(format, htmlFiles[i])]

\* .filter(...).sort(...) of refresh, on what the map left.  threw: an
\* exception left the map.
FilterAndSort(sortOrder, mapped) ==
  IF \E i \in 1..Len(mapped) : mapped[i].threw
  THEN [threw |-> TRUE, list |-> <<>>]
  ELSE [threw |-> FALSE,
        list |-> SortBlogs(sortOrder,
                   SelectSeq([i \in 1..Len(mapped) |-> mapped[i].blog],
                             KeepBlog))]

\* The list refresh builds from a directory listing: filter the names, parse,
\* drop the failures and the invalid dates, sort.
BuildCache(cfg, entries) ==
  FilterAndSort(cfg.sortOrder,
    MapFiles(cfg.metadataFormat,
      SelectSeq(entries, LAMBDA e : IsHtmlFile(e.name))))

\* BuildCache for every configuration and directory of the runs, computed
\* once, and the look-up in it.
BuiltOnce ==
  {[cfg |-> c, name |-> d, built |-> BuildCache(c, Directory(d).entries)] :
     c \in AllConfigs, d \in Dirs}

Built(cfg, name) ==
  (CHOOSE b \in BuiltOnce : b.cfg = cfg /\ b.name = name).built

\* refresh without its catch: the exception leaves refresh.
Rethrown(old) ==
  [cache |-> old.cache, lastRefresh |-> old.lastRefresh, threw |-> TRUE]

\* The catch of refresh: log, empty the collection, return.
CatchAll(old) ==
  [cache |-> <<>>, lastRefresh |-> old.lastRefresh, threw |-> FALSE]

\* The missing-directory branch without this.cache = [].
MissingDirectoryKeeps(old) ==
  [cache |-> old.cache, lastRefresh |-> old.lastRefresh, threw |-> FALSE]

\* refresh when fs.existsSync says no: warn, empty the collection, return.
MissingDirectory(old) ==
  [cache |-> <<>>, lastRefresh |-> old.lastRefresh, threw |-> FALSE]

\* The try block of refresh after the listing: the built list becomes the
\* collection and the time is set, unless building it threw.
Rebuilt(built, old, clock) ==
  IF built.threw THEN CatchAll(old)
  ELSE [cache |-> built.list, lastRefresh |-> <<clock>>, threw |-> FALSE]

\* BlogCache.refresh: the collection and the last-refresh time it leaves, and
\* whether it throws.  A missing directory empties the collection and returns
\* before the time is set; a listing that throws (fs.readdirSync) and anything
\* thrown while the list is built is caught.
refresh(cfg, dir, old, clock) ==
  IF ~Directory(dir).exists THEN MissingDirectory(old)
  ELSE IF ~Directory(dir).listable THEN CatchAll(old)
  ELSE Rebuilt(Built(cfg, dir), old, clock)

\* The condition of getAll without the test of config.cache.
NeedsRefreshWhenEmpty(cfg, old) == Len(old.cache) = 0

\* The condition of getAll under which it refreshes first.
NeedsRefresh(cfg, old) == ~cfg.cache \/ Len(old.cache) = 0

\* A getAll that refreshes on every call.
AfterGetAllRefreshed(cfg, dir, old, clock) == refresh(cfg, dir, old, clock)

\* The index after the refresh-if-needed of getAll.
AfterGetAll(cfg, dir, old, clock) ==
  IF NeedsRefresh(cfg, old) THEN refresh(cfg, dir, old, clock)
  ELSE [cache |-> old.cache, lastRefresh |-> old.lastRefresh, threw |-> FALSE]

\* return this.cache: the index's own array.
OwnArray(list) == [items |-> list, shared |-> TRUE]

\* [...this.cache]: a new array with the same elements, not the index's own.
CopyOf(list) == [items |-> list, shared |-> FALSE]

\* BlogCache.getAll: what it returns, given the index after its refresh.
getAll(index) == CopyOf(index.cache)

(***************************************************************************)
(* The queries.  A JavaScript value given as a year, month or day is a     *)
(* number, a string or undefined: [num, n, s].                             *)
(***************************************************************************)
JsNum(n) == [num |-> TRUE, n |-> n, s |-> Undefined]

JsStr(s) == [num |-> FALSE, n |-> 0, s |-> s]

JsUndefined == JsStr(Undefined)

\* !v
JsFalsy(v) == IF v.num THEN v.n = 0 ELSE ~Truthy(v.s)

\* parseInt(v, 10) of a number (an integer here), a string or undefined.
JsParseInt(v) == IF v.num THEN Num(v.n) ELSE ParseInt(v.s)

\* The arguments getByDate is called with.  A native Date is given by what
\* getTime (valid: not NaN), getFullYear, getMonth and getDate return.
StringDate(s) ==
  [kind |-> "string", s |-> s, valid |-> TRUE,
   year |-> JsUndefined, month |-> JsUndefined, day |-> JsUndefined]

NativeDate(fullYear, monthIndex, date) ==
  [kind |-> "date", s |-> Undefined, valid |-> TRUE,
   year |-> JsNum(fullYear), month |-> JsNum(monthIndex), day |-> JsNum(date)]

InvalidDate ==
  [kind |-> "date", s |-> Undefined, valid |-> FALSE,
   year |-> JsUndefined, month |-> JsUndefined, day |-> JsUndefined]

ObjectDate(year, month, day) ==
  [kind |-> "object", s |-> Undefined, valid |-> TRUE,
   year |-> year, month |-> month, day |-> day]

\* null, undefined, a number, a boolean, a function.
OtherValue(kind) ==
  [kind |-> kind, s |-> Undefined, valid |-> TRUE,
   year |-> JsUndefined, month |-> JsUndefined, day |-> JsUndefined]

\* A TypeError that leaves the call, as the value the call yields.
TypeError == [error |-> "TypeError"]

\* The (year, month, day) getByDate reads from its argument.  ok is FALSE
\* where the code returns null before the search; threw says that reading the
\* argument threw.
NoKey == [ok |-> FALSE, threw |-> FALSE, year |-> NaN, month |-> NaN, day |-> NaN]

ThrownKey == [ok |-> FALSE, threw |-> TRUE, year |-> NaN, month |-> NaN, day |-> NaN]

Key(year, month, day) ==
  [ok |-> TRUE, threw |-> FALSE, year |-> year, month |-> month, day |-> day]

\* The string branch of getByDate.
StringKey(blogDate) ==
  IF ~MatchesDateRegex(blogDate.s) THEN NoKey
  ELSE Key(ParseInt(SubSeq(blogDate.s, 1, 4)),
           ParseInt(SubSeq(blogDate.s, 6, 7)),
           ParseInt(SubSeq(blogDate.s, 9, 10)))

\* The Date branch with getMonth() taken as it is, without the + 1.
NativeKeyZeroBased(blogDate) ==
  IF ~blogDate.valid THEN NoKey
  ELSE Key(Num(blogDate.year.n), Num(blogDate.month.n), Num(blogDate.day.n))

\* The Date branch of getByDate.
NativeKey(blogDate) ==
  IF ~blogDate.valid THEN NoKey
  ELSE Key(Num(blogDate.year.n), Num(blogDate.month.n + 1), Num(blogDate.day.n))

\* The object branch of getByDate; reading a property of null throws.
ObjectKey(blogDate) ==
  IF blogDate.kind = "null" THEN ThrownKey
  ELSE IF JsFalsy(blogDate.year) \/ JsFalsy(blogDate.month) \/ JsFalsy(blogDate.day)
  THEN NoKey
  ELSE Key(JsParseInt(blogDate.year), JsParseInt(blogDate.month),
           JsParseInt(blogDate.day))

\* typeof blogDate === 'object' without the test for null.
IsObjectOrNull(blogDate) == blogDate.kind \in {"object", "date", "null"}

\* typeof blogDate === 'object' && blogDate !== null; typeof null is 'object'.
IsObject(blogDate) ==
  blogDate.kind \in {"object", "date", "null"} /\ blogDate.kind # "null"

DateKey(blogDate) ==
  IF blogDate.kind = "string" THEN StringKey(blogDate)
  ELSE IF blogDate.kind = "date" THEN NativeKey(blogDate)
  ELSE IF IsObject(blogDate) THEN ObjectKey(blogDate)
  ELSE NoKey

\* The test of the find without the comparison of the day.
BlogHasMonth(blog, key) ==
  /\ StrictEq(ParseInt(blog.year), key.year)
  /\ StrictEq(ParseInt(blog.month), key.month)

\* The test of the find in getByDate.
BlogHasDate(blog, key) ==
  /\ StrictEq(ParseInt(blog.year), key.year)
  /\ StrictEq(ParseInt(blog.month), key.month)
  /\ StrictEq(ParseInt(blog.day), key.day)

\* find(...) without '|| null': undefined when nothing is found.
FoundOrUndefined(blogs, i) == IF i = 0 THEN [undefined |-> TRUE] ELSE blogs[i]

\* blogs.find(...) || null
FoundOrNull(blogs, i) == IF i = 0 THEN Null ELSE blogs[i]

\* getByDate after its argument was read.
FindByKey(blogs, key) ==
  IF key.threw THEN TypeError
  ELSE IF ~key.ok THEN Null
  ELSE FoundOrNull(blogs,
         FirstIndex([n \in 1..Len(blogs) |-> BlogHasDate(blogs[n], key)]))

\* BlogCache.getByDate, on the list getAll returned.
getByDate(blogs, blogDate) == FindByKey(blogs, DateKey(blogDate))

Min(a, b) == IF a < b THEN a ELSE b

Max(a, b) == IF a > b THEN a ELSE b

\* Array.prototype.slice(start, end): a negative index counts from the end.
Slice(list, start, end) ==
  LET n == Len(list)
      from == IF start < 0 THEN Max(n + start, 0) ELSE Min(start, n)
      to == IF end < 0 THEN Max(n + end, 0) ELSE Min(end, n)
  IN SubSeq(list, from + 1, to)

\* The array a slice or a filter returns: a new one.
NewArray(list) == [items |-> list, shared |-> FALSE]

\* The count records after the first one.
getRecentAfterFirst(blogs, count) == NewArray(Slice(blogs, 1, count))

\* BlogCache.getRecent
getRecent(blogs, count) == NewArray(Slice(blogs, 0, count))

\* BlogCache.getBySlug
getBySlug(blogs, slug) ==
  FoundOrNull(blogs,
    FirstIndex([n \in 1..Len(blogs) |-> blogs[n].slug = slug]))

\* BlogCache.getByYear
getByYear(blogs, year) ==
  NewArray(SelectSeq(blogs,
    LAMBDA blog : StrictEq(ParseInt(blog.year), JsParseInt(year))))

\* BlogCache.getByYearMonth
getByYearMonth(blogs, year, month) ==
  NewArray(SelectSeq(blogs,
    LAMBDA blog : /\ StrictEq(ParseInt(blog.year), JsParseInt(year))
                  /\ StrictEq(ParseInt(blog.month), JsParseInt(month))))

\* Math.ceil(a / b) for a >= 0 and b >= 1.
Ceil(a, b) == (a + b - 1) \div b

\* The page number whether there is such a page or not.
PageAlways(has, p) == <<p>>

\* A page number or null: <<>> is null.
PageOrNull(has, p) == IF has THEN <<p>> ELSE <<>>

\* The start index counted from page 0.
StartIndexFromZero(currentPage, perPage) == currentPage * perPage

\* const startIndex = (currentPage - 1) * perPage
StartIndex(currentPage, perPage) == (currentPage - 1) * perPage

\* The current page bounded from above only.
CurrentPageAtMost(page, totalPages) == Min(page, totalPages)

\* const currentPage = Math.max(1, Math.min(page, totalPages))
CurrentPage(page, totalPages) == Max(1, Min(page, totalPages))

\* BlogCache.getPaginated, for perPage >= 1.
getPaginated(blogs, page, perPage) ==
  LET totalItems == Len(blogs)
      totalPages == Ceil(totalItems, perPage)
      currentPage == CurrentPage(page, totalPages)
      startIndex == StartIndex(currentPage, perPage)
      endIndex == startIndex + perPage
  IN [items |-> Slice(blogs, startIndex, endIndex),
      pagination |->
        [currentPage |-> currentPage,
         totalPages |-> totalPages,
         totalItems |-> totalItems,
         perPage |-> perPage,
         hasNext |-> currentPage < totalPages,
         hasPrev |-> currentPage > 1,
         nextPage |-> PageOrNull(currentPage < totalPages, currentPage + 1),
         prevPage |-> PageOrNull(currentPage > 1, currentPage - 1)]]

\* The text of a file content, as search reads it from the content field.
RECURSIVE Concat(_)
Concat(ss) == IF ss = <<>> THEN <<>> ELSE Head(ss) \o Concat(Tail(ss))

TokenText(t) ==
  IF t.tag = "meta"
  THEN <<"<","!","-","-"," ","[">> \o t.key \o <<":"," ">> \o t.val
         \o <<"]"," ","-","-",">">>
  ELSE IF t.tag = "title"
  THEN <<"<","t","i","t","l","e",">">> \o t.val
         \o <<"<","/","t","i","t","l","e",">">>
  ELSE t.val

FmLineText(l) ==
  (IF l.sep THEN l.key \o <<":">> \o l.val ELSE l.val) \o <<"\n">>

ContentText(content) ==
  (IF content.hasFm
   THEN <<"-","-","-","\n">>
          \o Concat([i \in 1..Len(content.fm) |-> FmLineText(content.fm[i])])
          \o <<"-","-","-","\n">>
   ELSE <<>>)
  \o Concat([i \in 1..Len(content.body) |-> TokenText(content.body[i])])

\* blog[field]
FieldValue(blog, field) ==
  IF field = kTitle THEN blog.title
  ELSE IF field = kDesc THEN blog.desc
  ELSE IF field = kContent THEN ContentText(blog.content)
  ELSE IF field = kDate THEN blog.date
  ELSE IF field = kSlug THEN blog.slug
  ELSE IF field = kFileName THEN blog.fileName
  ELSE IF field = kFilePath THEN blog.filePath
  ELSE IF field = kYear THEN blog.year
  ELSE IF field = kMonth THEN blog.month
  ELSE IF field = kDay THEN blog.day
  ELSE IF field \in DOMAIN blog.extra THEN blog.extra[field]
  ELSE Undefined

\* The default of the fields parameter of search.
DefaultSearchFields == <<kTitle, kDesc>>

\* The search that tells upper case from lower case.
searchCaseSensitive(blogs, keyword, fields) ==
  NewArray(SelectSeq(blogs,
    LAMBDA blog : \E i \in 1..Len(fields) :
      Truthy(FieldValue(blog, fields[i]))
        /\ Includes(FieldValue(blog, fields[i]), keyword)))

\* BlogCache.search
search(blogs, keyword, fields) ==
  LET lowerKeyword == ToLowerCase(keyword)
  IN NewArray(SelectSeq(blogs,
       LAMBDA blog : \E i \in 1..Len(fields) :
         LET value == FieldValue(blog, fields[i])
         IN Truthy(value) /\ Includes(ToLowerCase(value), lowerKeyword)))

\* parseInt(req.query.x) || otherwise, of a query parameter; <<>>: absent.
ParseIntOr(param, otherwise) ==
  IF ParseInt(param).nan \/ ParseInt(param).n = 0 THEN otherwise
  ELSE ParseInt(param).n

\* const perPage = parseInt(req.query.per_page) || 10
DefaultPerPage == 10

\* The posts GET /api/posts answers with: those of a search, of a year and
\* month, of a year, or all.
apiPostsBlogs(all, query) ==
  IF Truthy(query.search)
  THEN search(all.items, query.search, DefaultSearchFields).items
  ELSE IF Truthy(query.year) /\ Truthy(query.month)
  THEN getByYearMonth(all.items, JsStr(query.year), JsStr(query.month)).items
  ELSE IF Truthy(query.year)
  THEN getByYear(all.items, JsStr(query.year)).items
  ELSE all.items

\* The current page of GET /api/posts bounded from below only.
ApiCurrentPageAtLeast(page, totalPages) == Max(1, page)

\* const currentPage = Math.max(1, Math.min(page, totalPages)), in the route
ApiCurrentPage(page, totalPages) == Max(1, Min(page, totalPages))

\* The response of GET /api/posts with a page parameter, for perPage >= 1.
apiPostsPage(blogs, page, perPage) ==
  [items |->
     Slice(blogs,
           (ApiCurrentPage(page, Ceil(Len(blogs), perPage)) - 1) * perPage,
           (ApiCurrentPage(page, Ceil(Len(blogs), perPage)) - 1) * perPage
             + perPage),
   pagination |->
     [currentPage |-> ApiCurrentPage(page, Ceil(Len(blogs), perPage)),
      totalPages |-> Ceil(Len(blogs), perPage),
      totalItems |-> Len(blogs),
      perPage |-> perPage]]

\* router.get('/api/posts'): the body of the JSON response.
\* sanitizeBlogForAPI copies each record field by field.
apiPosts(all, query) ==
  IF Truthy(query.page)
  THEN apiPostsPage(apiPostsBlogs(all, query),
                    ParseIntOr(query.page, 1),
                    ParseIntOr(query.per_page, DefaultPerPage))
  ELSE [items |-> apiPostsBlogs(all, query)]

\* BlogCache.getStats; a date or null: <<>> is null.
getStats(index) ==
  [totalPosts |-> Len(index.cache),
   lastRefresh |-> index.lastRefresh,
   oldestPost |-> IF Len(index.cache) > 0
                  THEN <<index.cache[Len(index.cache)].date>> ELSE <<>>,
   newestPost |-> IF Len(index.cache) > 0
                  THEN <<index.cache[1].date>> ELSE <<>>]

(***************************************************************************)
(* The bounds of the runs and the arguments the calls draw from.            *)
(***************************************************************************)
\* The bounds of the runs.
MaxClock == 2

MaxCount == 3

MaxPage == 3

MaxPerPage == 2

\* The page far beyond the last one that the tests ask for.
FarPage == 99

GetByDateInputs ==
  {StringDate(d20), StringDate(dAbsent), StringDate(dShort),
   StringDate(d20Spaced), NativeDate(2025, 0, 20), InvalidDate,
   ObjectDate(JsNum(2025), JsNum(1), JsNum(20)),
   ObjectDate(JsStr(s2025), JsStr(s01), JsStr(s20)),
   ObjectDate(JsNum(2025), JsNum(1), JsUndefined),
   ObjectDate(JsNum(2025), JsNum(0), JsNum(20)),
   ObjectDate(JsStr(sAbc), JsStr(s01), JsStr(s20)),
   OtherValue("null"), OtherValue("undefined"), OtherValue("number")}

PageInputs == (-1..MaxPage) \cup {FarPage}

YearInputs == {JsNum(2025), JsStr(s2025), JsNum(1999)}

MonthInputs == {JsStr(s01), JsNum(2)}

SearchInputs ==
  {[keyword |-> wTest, fields |-> DefaultSearchFields],
   [keyword |-> wBody, fields |-> DefaultSearchFields],
   [keyword |-> wBody, fields |-> <<kContent>>],
   [keyword |-> wNone, fields |-> DefaultSearchFields]}

\* The query strings GET /api/posts is called with; <<>>: no such parameter.
ApiQuery(page, per_page, keyword, year, month) ==
  [page |-> page, per_page |-> per_page, search |-> keyword,
   year |-> year, month |-> month]

ApiInputs ==
  {ApiQuery(page, s2, <<>>, <<>>, <<>>) : page \in {<<>>, s0, s2, s99}}
    \cup {ApiQuery(page, s2, <<>>, s1999, <<>>) : page \in {s0, s99}}
    \cup {ApiQuery(page, <<>>, wTest, <<>>, <<>>) : page \in {s2, s99}}
    \cup {ApiQuery(s2, s2, <<>>, s2025, s01)}

(***************************************************************************)
(* The state machine.  A step is one call of the index that returns, one   *)
(* change a caller makes to a list it was given, or a step of the          *)
(* environment: the directory changes, time passes.                        *)
(***************************************************************************)
Index == [cache |-> cache, lastRefresh |-> lastRefresh]

\* new BlogCache(config, parser): no records, never refreshed.
NewBlogCache == [cache |-> <<>>, lastRefresh |-> <<>>]

\* new ExpressStaticBlog(options): the index is refreshed at once if caching
\* is enabled.
Constructed(cfg, dir, clock) ==
  IF cfg.cache THEN refresh(cfg, dir, NewBlogCache, clock)
  ELSE [cache |-> <<>>, lastRefresh |-> <<>>, threw |-> FALSE]

StartsAs(idx) ==
  /\ cache = idx.cache
  /\ lastRefresh = idx.lastRefresh

Init ==
  /\ config \in Configs
  /\ fs \in Dirs
  /\ now = 0
  /\ StartsAs(Constructed(config, fs, 0))
  /\ last = [op |-> "new"]

\* What a call leaves to look at: its arguments, what it returned, whether an
\* exception left it, and how many records the index held when it began.
Called(op, arg, idx, ret) ==
  [op |-> op, arg |-> arg, held |-> Len(cache),
   threw |-> idx.threw \/ ret = TypeError, ret |-> ret]

\* A call of refresh that leaves the index idx.
Refreshes(idx) ==
  /\ cache' = idx.cache
  /\ lastRefresh' = idx.lastRefresh
  /\ last' = [op |-> "refresh", held |-> Len(cache), threw |-> idx.threw]
  /\ UNCHANGED <<config, fs, now>>

Refresh == Refreshes(refresh(config, fs, Index, now))

\* What the query op returns for the list getAll gave it.
Returns(op, arg, all) ==
  CASE op = "getAll" -> all
    [] op = "getByDate" -> getByDate(all.items, arg.blogDate)
    [] op = "getRecent" -> getRecent(all.items, arg.count)
    [] op = "getBySlug" -> getBySlug(all.items, arg.slug)
    [] op = "getByYear" -> getByYear(all.items, arg.year)
    [] op = "getByYearMonth" -> getByYearMonth(all.items, arg.year, arg.month)
    [] op = "getPaginated" -> getPaginated(all.items, arg.page, arg.perPage)
    [] op = "search" -> search(all.items, arg.keyword, arg.fields)
    [] op = "apiPosts" -> apiPosts(all, arg)

\* What every query does: this.getAll(), which leaves the index idx, and then
\* its own work on the list getAll returned.
Query(op, arg, idx) ==
  /\ cache' = idx.cache
  /\ lastRefresh' = idx.lastRefresh
  /\ last' = Called(op, arg, idx, Returns(op, arg, getAll(idx)))
  /\ UNCHANGED <<config, fs, now>>

GetAll == Query("getAll", <<>>, AfterGetAll(config, fs, Index, now))

\* The argument of a getByDate call: one of the caller's (from = 0), or the
\* year, month and day of the from-th record of the list getAll has just
\* returned.
ByDateArg(from, given) ==
  IF from = 0 THEN [blogDate |-> given, from |-> 0, of |-> Null]
  ELSE [blogDate |-> ObjectDate(JsStr(last.ret.items[from].year),
                                JsStr(last.ret.items[from].month),
                                JsStr(last.ret.items[from].day)),
        from |-> from, of |-> last.ret.items[from]]

GetByDate ==
  \E from \in 0..(IF last.op = "getAll" THEN Len(last.ret.items) ELSE 0) :
    \E given \in (IF from = 0 THEN GetByDateInputs ELSE {InvalidDate}) :
      Query("getByDate", ByDateArg(from, given),
            AfterGetAll(config, fs, Index, now))

GetRecent ==
  \E count \in 0..MaxCount :
    Query("getRecent", [count |-> count], AfterGetAll(config, fs, Index, now))

GetBySlug ==
  \E slug \in {slugTest, slugNone} :
    Query("getBySlug", [slug |-> slug], AfterGetAll(config, fs, Index, now))

GetByYear ==
  \E year \in YearInputs :
    Query("getByYear", [year |-> year], AfterGetAll(config, fs, Index, now))

GetByYearMonth ==
  \E year \in {JsNum(2025)}, month \in MonthInputs :
    Query("getByYearMonth", [year |-> year, month |-> month],
          AfterGetAll(config, fs, Index, now))

GetPaginated ==
  \E page \in PageInputs, perPage \in 1..MaxPerPage :
    Query("getPaginated", [page |-> page, perPage |-> perPage],
          AfterGetAll(config, fs, Index, now))

Search ==
  \E q \in SearchInputs :
    Query("search", q, AfterGetAll(config, fs, Index, now))

\* A GET /api/posts request.
ApiPosts ==
  \E query \in ApiInputs :
    Query("apiPosts", query, AfterGetAll(config, fs, Index, now))

GetStats ==
  /\ last' = [op |-> "getStats", ret |-> getStats(Index)]
  /\ UNCHANGED <<config, fs, cache, lastRefresh, now>>

\* The calls that return a list.
ListOps == {"getAll", "getRecent", "getByYear", "getByYearMonth", "search"}

Reverse(list) == [i \in 1..Len(list) |-> list[Len(list) + 1 - i]]

\* What a caller does to a list: push an element, pop one, reverse the list.
Mutated(list, kind) ==
  IF kind = "push" THEN Append(list, Null)
  ELSE IF kind = "pop" THEN SubSeq(list, 1, Len(list) - 1)
  ELSE Reverse(list)

\* The caller changes the list the last call returned.  The change is also
\* one of the index's collection exactly if that list is the index's own array.
CallerMutates ==
  \E kind \in {"push", "pop", "reverse"} :
    /\ last.op \in ListOps
    /\ LET changed == Mutated(last.ret.items, kind)
       IN /\ last' = [op |-> "mutate", kind |-> kind, before |-> cache,
                      list |-> changed]
          /\ cache' = IF last.ret.shared THEN changed ELSE cache
    /\ UNCHANGED <<config, fs, lastRefresh, now>>

\* The files of the directory change between two calls.
Deploy ==
  /\ fs' \in Dirs \ {fs}
  /\ last' = [op |-> "env"]
  /\ UNCHANGED <<config, cache, lastRefresh, now>>

\* Time passes between two calls.
Tick ==
  /\ now < MaxClock
  /\ now' = now + 1
  /\ last' = [op |-> "env"]
  /\ UNCHANGED <<config, fs, cache, lastRefresh>>

Next ==
  \/ Refresh
  \/ GetAll
  \/ GetByDate
  \/ GetRecent
  \/ GetBySlug
  \/ GetByYear
  \/ GetByYearMonth
  \/ GetPaginated
  \/ Search
  \/ ApiPosts
  \/ GetStats
  \/ CallerMutates
  \/ Deploy

Spec == Init /\ [][Next]_vars

\* The same program constructed with a metadataFormat that names neither
\* strategy.
InitFormats ==
  /\ config \in OtherConfigs
  /\ fs \in Dirs
  /\ now = 0
  /\ StartsAs(Constructed(config, fs, 0))
  /\ last = [op |-> "new"]

SpecFormats == InitFormats /\ [][Next]_vars

\* The same with the clock running.
NextClock ==
  \/ Next
  \/ Tick

SpecClock == Init /\ [][NextClock]_vars

\* The calls that set or show the last-refresh time, with the clock running.
NextTimes ==
  \/ Refresh
  \/ GetAll
  \/ GetStats
  \/ Deploy
  \/ Tick

SpecTimes == Init /\ [][NextTimes]_vars

(***************************************************************************)
(* refresh step by step.  The same program with the body of refresh taken  *)
(* apart into its evaluation steps: the listing and the filter of the      *)
(* names, the map callback file by file, the filter, the sort, and the     *)
(* assignment to this.cache.  While a refresh runs, last holds its         *)
(* position: the files to parse, the list built so far, the collection it  *)
(* found and what readers have seen of this.cache in between.              *)
(***************************************************************************)
\* this.cache while the chain of refresh is evaluated, were the list built
\* in place.
ExposedInPlace(current, work) == work

\* this.cache while the chain htmlFiles.map(...).filter(...).sort(...) is
\* evaluated: not assigned yet, so still the collection found.
Exposed(current, work) == current

Running == last.op = "refreshing"

\* The position of a refresh that has its list of HTML files.
Refreshing(stage, todo, work, before, seen) ==
  [op |-> "refreshing", stage |-> stage, todo |-> todo, work |-> work,
   before |-> before, seen |-> seen]

\* refresh up to const htmlFiles = files.filter(...); the missing directory
\* and the listing that throws end the call at once.
RefreshBegins ==
  /\ ~Running
  /\ IF ~Directory(fs).exists \/ ~Directory(fs).listable
     THEN Refreshes(refresh(config, fs, Index, now))
     ELSE /\ last' = Refreshing("map",
                       SelectSeq(Directory(fs).entries,
                                 LAMBDA e : IsHtmlFile(e.name)),
                       <<>>, cache, {})
          /\ cache' = Exposed(cache, <<>>)
          /\ UNCHANGED <<config, fs, lastRefresh, now>>

\* One call of the map callback: parseFile in its try/catch.
RefreshMaps ==
  /\ Running /\ last.stage = "map" /\ last.todo # <<>>
  /\ last' = [last EXCEPT
       !.todo = Tail(@),
       !.work = Append(@, MapCallback(config.metadataFormat,
                                      Head(last.todo)).blog)]
  /\ cache' = Exposed(cache, last'.work)
  /\ UNCHANGED <<config, fs, lastRefresh, now>>

\* .filter(blog => blog !== null && this.parser.isValidDate(blog.date))
RefreshFilters ==
  /\ Running /\ last.stage = "map" /\ last.todo = <<>>
  /\ last' = [last EXCEPT !.stage = "sort",
                          !.work = SelectSeq(@, KeepBlog)]
  /\ cache' = Exposed(cache, last'.work)
  /\ UNCHANGED <<config, fs, lastRefresh, now>>

\* .sort(...)
RefreshSorts ==
  /\ Running /\ last.stage = "sort"
  /\ last' = [last EXCEPT !.stage = "assign",
                          !.work = SortBlogs(config.sortOrder, @)]
  /\ cache' = Exposed(cache, last'.work)
  /\ UNCHANGED <<config, fs, lastRefresh, now>>

\* this.cache = ...; this.lastRefresh = new Date(); and refresh returns.
RefreshAssigns ==
  /\ Running /\ last.stage = "assign"
  /\ cache' = last.work
  /\ lastRefresh' = <<now>>
  /\ last' = [op |-> "refresh", held |-> Len(last.before), threw |-> FALSE]
  /\ UNCHANGED <<config, fs, now>>

\* A reader looks at this.cache while the refresh runs.
ReadsDuring ==
  /\ Running
  /\ cache \notin last.seen
  /\ last' = [last EXCEPT !.seen = @ \cup {cache}]
  /\ UNCHANGED <<config, fs, cache, lastRefresh, now>>

\* The files of the directory change between two calls.
DeployBetween == ~Running /\ Deploy

NextSteps ==
  \/ RefreshBegins
  \/ RefreshMaps
  \/ RefreshFilters
  \/ RefreshSorts
  \/ RefreshAssigns
  \/ ReadsDuring
  \/ DeployBetween

SpecSteps == Init /\ [][NextSteps]_vars

(***************************************************************************)
(* The caller and the records.  The same index with a caller that writes   *)
(* to a record it was given.                                               *)
(***************************************************************************)
\* The collection after a caller has assigned value to the fileName of the
\* i-th record of a list getAll returned: [...this.cache] makes a new array
\* of the same record objects, so the record written to is the collection's.
RecordWritten(list, i, value) ==
  [list EXCEPT ![i] = [@ EXCEPT !.fileName = value]]

\* The caller assigns to a field of the first record of the list that getAll
\* has just returned: posts[0].fileName = 'abc'.
CallerWritesRecord ==
  /\ last.op = "getAll"
  /\ last.ret.items # <<>>
  /\ last.ret.items[1].fileName # sAbc
  /\ cache' = RecordWritten(cache, 1, sAbc)
  /\ last' = [op |-> "write", before |-> cache, of |-> last.ret.items[1]]
  /\ UNCHANGED <<config, fs, lastRefresh, now>>

NextShared ==
  \/ Refresh
  \/ GetAll
  \/ GetByDate
  \/ CallerWritesRecord
  \/ Deploy

SpecShared == Init /\ [][NextShared]_vars

(***************************************************************************)
(* The properties.  What they need that the code does not compute: the     *)
(* calendar, the order of two dates by their digits, the records a call    *)
(* returned.                                                               *)
(***************************************************************************)
\* The calls that read through getAll.
QueryOps ==
  {"getAll", "getByDate", "getRecent", "getBySlug", "getByYear",
   "getByYearMonth", "getPaginated", "search"}

TwoDigits(s, i) == 10 * DigitVal(s[i]) + DigitVal(s[i + 1])

IsLeapYear(y) == y % 4 = 0 /\ (y % 100 # 0 \/ y % 400 = 0)

DaysInMonth(y, m) ==
  IF m = 2 THEN (IF IsLeapYear(y) THEN 29 ELSE 28)
  ELSE IF m \in {4, 6, 9, 11} THEN 30
  ELSE 31

\* s has the form YYYY-MM-DD and names a day of the calendar.
RealCalendarDate(s) ==
  /\ Len(s) = 10
  /\ \A i \in {1, 2, 3, 4, 6, 7, 9, 10} : s[i] \in Digits
  /\ s[5] = "-" /\ s[8] = "-"
  /\ TwoDigits(s, 6) \in 1..12
  /\ TwoDigits(s, 9) \in 1..DaysInMonth(100 * TwoDigits(s, 1) + TwoDigits(s, 3),
                                        TwoDigits(s, 6))

\* A date of the form YYYY-MM-DD as the number YYYYMMDD.
DateNumber(s) ==
  10000 * (100 * TwoDigits(s, 1) + TwoDigits(s, 3))
    + 100 * TwoDigits(s, 6) + TwoDigits(s, 9)

Elements(list) == {list[i] : i \in 1..Len(list)}

\* The records the last call returned.
Returned ==
  IF last.op \in ListOps THEN Elements(last.ret.items)
  ELSE IF last.op = "getPaginated" THEN Elements(last.ret.items)
  ELSE IF last.op \in {"getByDate", "getBySlug"}
  THEN {last.ret} \ {Null, TypeError}
  ELSE {}

\* The entries of the directory that are HTML files.
HtmlEntries ==
  {e \in Elements(Directory(fs).entries) : IsHtmlFile(e.name)}

\* C1: every record of the collection, and every record a call returns, has
\* a date of the form YYYY-MM-DD that names a day of the calendar.
C1_ValidDates ==
  /\ \A i \in 1..Len(cache) : RealCalendarDate(cache[i].date)
  /\ \A r \in Returned : RealCalendarDate(r.date)

\* C1: a refresh has left records although the directory holds a readable
\* HTML file without a calendar date.
C1_Witness ==
  /\ last.op = "refresh"
  /\ cache # <<>>
  /\ \E e \in HtmlEntries :
       /\ e.readable
       /\ ~RealCalendarDate(parseFile(config.metadataFormat, e.name, e.content).date)

\* C2: the collection is ordered by date, newest first under 'desc' and
\* oldest first under 'asc', and getAll returns the records in that order.
C2_SortedByDate ==
  /\ \A i \in 1..(Len(cache) - 1) :
       IF config.sortOrder = "desc"
       THEN DateNumber(cache[i].date) >= DateNumber(cache[i + 1].date)
       ELSE DateNumber(cache[i].date) <= DateNumber(cache[i + 1].date)
  /\ last.op = "getAll" => last.ret.items = cache

\* C2: getAll has returned three or more records of different days under
\* 'asc'.
C2_Witness ==
  /\ last.op = "getAll"
  /\ config.sortOrder = "asc"
  /\ Len(last.ret.items) >= 3
  /\ DateNumber(last.ret.items[1].date)
       < DateNumber(last.ret.items[Len(last.ret.items)].date)

\* The records of the readable HTML files of the directory that pass the
\* index's date check.
ValidRecords ==
  {b \in {parseFile(config.metadataFormat, e.name, e.content) :
            e \in {h \in HtmlEntries : h.readable}} :
     isValidDate(b.date)}

\* C3: a refresh of a directory that can be listed does not throw and leaves
\* exactly the records of the readable HTML files with a valid date, each
\* once and as parsed from its own file, whatever the other files are.
C3_FailuresIsolated ==
  (last.op = "refresh" /\ Directory(fs).exists /\ Directory(fs).listable) =>
    /\ ~last.threw
    /\ Elements(cache) = ValidRecords
    /\ Len(cache) = Cardinality(ValidRecords)

\* C3: a refresh has left records although an HTML file of the directory
\* cannot be read.
C3_Witness ==
  /\ last.op = "refresh"
  /\ cache # <<>>
  /\ \E e \in HtmlEntries : ~e.readable

\* C4: a refresh with the directory missing does not throw and leaves the
\* collection empty, and a getAll right after it returns the empty list.
C4_MissingDirectory ==
  [][/\ (last'.op = "refresh" /\ ~Directory(fs').exists) =>
          (~last'.threw /\ cache' = <<>>)
     /\ (last.op = "refresh" /\ ~Directory(fs).exists /\ last'.op = "getAll") =>
          (~last'.threw /\ last'.ret.items = <<>>)]_vars

\* C4: a refresh with the directory missing has emptied a collection that
\* held records.
C4_Witness ==
  /\ last.op = "refresh"
  /\ ~Directory(fs).exists
  /\ last.held > 0
  /\ cache = <<>>

\* The list a scan of the directory as it is now leaves in the index.
FreshList == refresh(config, fs, NewBlogCache, now).cache

\* What a query answers from a list of records.
Answer(op, arg, blogs) ==
  CASE op = "getAll" -> [items |-> blogs, shared |-> FALSE]
    [] op = "getByDate" -> getByDate(blogs, arg.blogDate)
    [] op = "getRecent" -> getRecent(blogs, arg.count)
    [] op = "getBySlug" -> getBySlug(blogs, arg.slug)
    [] op = "getByYear" -> getByYear(blogs, arg.year)
    [] op = "getByYearMonth" -> getByYearMonth(blogs, arg.year, arg.month)
    [] op = "getPaginated" -> getPaginated(blogs, arg.page, arg.perPage)
    [] op = "search" -> search(blogs, arg.keyword, arg.fields)

\* C5: a query that begins with caching disabled or with an empty collection
\* leaves the collection a scan of the directory as it is at the call gives,
\* and answers from it.
C5_LazyRefresh ==
  (last.op \in QueryOps /\ (~config.cache \/ last.held = 0)) =>
    /\ cache = FreshList
    /\ last.ret = Answer(last.op, last.arg, FreshList)

\* C5: with caching disabled, a query other than getAll began with records
\* held and left a collection of another size: the directory had changed.
C5_Witness ==
  /\ last.op \in QueryOps \ {"getAll"}
  /\ ~config.cache
  /\ last.held > 0
  /\ Len(cache) > last.held

\* C6: the lists getAll, getRecent and the filtering queries return are new
\* arrays, and a caller's change to one leaves the collection as it was.
C6_DefensiveCopy ==
  /\ last.op \in ListOps => ~last.ret.shared
  /\ last.op = "mutate" => cache = last.before

\* C6: a caller has reversed a returned list and holds another order than
\* the collection, which has two or more records.
C6_Witness ==
  /\ last.op = "mutate"
  /\ last.kind = "reverse"
  /\ Len(cache) >= 2
  /\ last.list # cache

\* The places of the collection whose year, month and day parse to the
\* integers those of r parse to.
SameDay(r) ==
  {i \in 1..Len(cache) :
     /\ StrictEq(ParseInt(cache[i].year), ParseInt(r.year))
     /\ StrictEq(ParseInt(cache[i].month), ParseInt(r.month))
     /\ StrictEq(ParseInt(cache[i].day), ParseInt(r.day))}

Least(set) == CHOOSE i \in set : \A j \in set : i <= j

\* C7, as claimed: getByDate with the year, month and day of a record r of
\* getAll() returns a record equal to r.
C7_RoundTrip ==
  (last.op = "getByDate" /\ last.arg.from > 0) => last.ret = last.arg.of

\* C7, amended: getByDate with the year, month and day of a record r of
\* getAll() returns the first record of the collection whose year, month and
\* day parse to the same integers as r's, and null when there is none (a part
\* of r is not a number).
C7_FirstOfSameDay ==
  (last.op = "getByDate" /\ last.arg.from > 0) =>
    IF SameDay(last.arg.of) = {} THEN last.ret = Null
    ELSE last.ret = cache[Least(SameDay(last.arg.of))]

\* C7: getByDate was given the parts of a record and returned another record,
\* one of the same day that comes earlier.
C7_Witness ==
  /\ last.op = "getByDate"
  /\ last.arg.from > 1
  /\ last.ret # Null
  /\ last.ret # last.arg.of

\* The four ways to name 20 January 2025.
SameDayInputs ==
  {StringDate(d20), NativeDate(2025, 0, 20),
   ObjectDate(JsNum(2025), JsNum(1), JsNum(20)),
   ObjectDate(JsStr(s2025), JsStr(s01), JsStr(s20))}

\* The places of the collection whose year, month and day are 2025, 1, 20.
On20Jan2025 ==
  {i \in 1..Len(cache) :
     /\ ParseInt(cache[i].year) = Num(2025)
     /\ ParseInt(cache[i].month) = Num(1)
     /\ ParseInt(cache[i].day) = Num(20)}

\* C8: a string, a native Date and an object with numbers or with numeric
\* strings that name the same day all return the first record of the
\* collection, in its order, whose year, month and day are that day's.
C8_SameDaySameRecord ==
  (last.op = "getByDate" /\ last.arg.from = 0
     /\ last.arg.blogDate \in SameDayInputs) =>
    IF On20Jan2025 = {} THEN last.ret = Null
    ELSE last.ret = cache[Least(On20Jan2025)]

\* C8: getByDate was given a native Date and returned the first of two
\* records of that day.
C8_Witness ==
  /\ last.op = "getByDate"
  /\ last.arg.blogDate = NativeDate(2025, 0, 20)
  /\ last.ret # Null
  /\ Cardinality(On20Jan2025) >= 2

\* Arguments that name no date.
NotADate ==
  {StringDate(dShort), StringDate(d20Spaced), InvalidDate,
   ObjectDate(JsNum(2025), JsNum(1), JsUndefined),
   OtherValue("null"), OtherValue("undefined"), OtherValue("number")}

\* C9: getByDate does not throw; it returns null for an argument that names
\* no date and for a well-formed date that no record has.
C9_NullNeverThrows ==
  last.op = "getByDate" =>
    /\ ~last.threw
    /\ last.ret # TypeError
    /\ last.arg.blogDate \in NotADate => last.ret = Null
    /\ (/\ last.arg.blogDate.kind = "string"
        /\ RealCalendarDate(last.arg.blogDate.s)
        /\ \A i \in 1..Len(cache) : cache[i].date # last.arg.blogDate.s)
         => last.ret = Null

\* C9: getByDate was given null while the collection held records, and
\* returned null.
C9_Witness ==
  /\ last.op = "getByDate"
  /\ last.arg.blogDate = OtherValue("null")
  /\ cache # <<>>
  /\ last.ret = Null

\* The items of pages 1..n of the collection, in page order.
RECURSIVE PagesUpTo(_, _)
PagesUpTo(n, perPage) ==
  IF n = 0 THEN <<>>
  ELSE PagesUpTo(n - 1, perPage) \o getPaginated(cache, n, perPage).items

\* C10: for page >= 1, getPaginated returns at most perPage items, the
\* collection's size as totalItems and its ceiling quotient by perPage as
\* totalPages; a page up to totalPages holds its slice of the collection, and
\* pages 1..totalPages in order make up the collection.
C10_Pagination ==
  (last.op = "getPaginated" /\ last.arg.page >= 1) =>
    LET per == last.arg.perPage
        page == last.arg.page
        total == last.ret.pagination.totalPages
    IN /\ Len(last.ret.items) <= per
       /\ last.ret.pagination.totalItems = Len(cache)
       /\ total * per >= Len(cache)
       /\ (total - 1) * per < Len(cache)
       /\ page <= total =>
            last.ret.items =
              SubSeq(cache, (page - 1) * per + 1, Min(page * per, Len(cache)))
       /\ PagesUpTo(total, per) = cache

\* C10: getPaginated(2, 2) on three records: the last page, with one item.
C10_Witness ==
  /\ last.op = "getPaginated"
  /\ last.arg.page = 2
  /\ last.arg.perPage = 2
  /\ Len(cache) = 3
  /\ Len(last.ret.items) = 1

C12_FarPageEmpty ==
  (last.op = "getPaginated"
     /\ last.arg.page > last.ret.pagination.totalPages) =>
    /\ last.ret.items = <<>>
    /\ last.ret.pagination.currentPage = last.arg.page

\* C13: getRecent(n), n >= 0, returns the first min(n, total) records of the
\* collection in the collection's order: the whole collection when n is
\* larger than its size, never more records than there are, and no error.
C13_RecentIsPrefix ==
  (last.op = "getRecent" /\ last.arg.count >= 0) =>
    LET n == Min(last.arg.count, Len(cache))
    IN /\ ~last.threw
       /\ Len(last.ret.items) = n
       /\ \A i \in 1..n : last.ret.items[i] = cache[i]
       /\ last.arg.count >= Len(cache) => last.ret.items = cache

\* C13: getRecent(3) on a collection of two records returns both.
C13_Witness ==
  /\ last.op = "getRecent"
  /\ last.arg.count = 3
  /\ Len(cache) = 2
  /\ last.ret.items = cache

\* Two characters that are the same letter, in upper or lower case.
SameLetter(a, b) ==
  a = b \/ \E i \in 1..Len(UpperSeq) : {a, b} = {UpperSeq[i], LowerSeq[i]}

\* The word stands somewhere in the text, letter by letter, whatever the case.
Occurs(word, text) ==
  \E k \in 0..(Len(text) - Len(word)) :
    \A j \in 1..Len(word) : SameLetter(text[k + j], word[j])

\* The record has one of the fields, and the keyword stands in it.
Matches(blog, keyword, fields) ==
  \E i \in 1..Len(fields) :
    /\ FieldValue(blog, fields[i]) # Undefined
    /\ Occurs(keyword, FieldValue(blog, fields[i]))

\* The places of the collection whose records match, in order.
MatchingPlaces(blogs, keyword, fields) ==
  {i \in 1..Len(blogs) : Matches(blogs[i], keyword, fields)}

C15_FullText ==
  (last.op = "search" /\ last.arg.fields = DefaultSearchFields) =>
    \A i \in MatchingPlaces(cache, last.arg.keyword, <<kTitle, kDesc, kContent>>) :
      \E n \in 1..Len(last.ret.items) : last.ret.items[n] = cache[i]

\* The dates of the records of the collection, as days.
DaysPresent == {DateTime(cache[i].date) : i \in 1..Len(cache)}

\* C16: getStats reports the size of the collection as totalPosts, the
\* earliest date present as oldestPost and the latest as newestPost, under
\* either sort order, and null for both when the collection is empty.
C16_StatsExtremes ==
  last.op = "getStats" =>
    /\ last.ret.totalPosts = Len(cache)
    /\ IF cache = <<>>
       THEN last.ret.oldestPost = <<>> /\ last.ret.newestPost = <<>>
       ELSE /\ Len(last.ret.oldestPost) = 1
            /\ Len(last.ret.newestPost) = 1
            /\ \A d \in DaysPresent :
                 /\ DateTime(last.ret.oldestPost[1]) <= d
                 /\ DateTime(last.ret.newestPost[1]) >= d

\* C17: as claimed: when the listing of the directory fails, refresh throws
\* to its caller.
C17_ListingErrorPropagates ==
  (last.op = "refresh" /\ fs = "unlistable") => last.threw

\* C17: when the listing of the directory fails, refresh catches the error:
\* it returns without throwing and leaves the collection empty.
C17_ListingErrorCaught ==
  (last.op = "refresh" /\ fs = "unlistable") =>
    /\ ~last.threw
    /\ cache = <<>>

\* C17: refresh on an index that held records, after the directory became
\* unlistable, returned and emptied the collection.
C17_Witness ==
  /\ last.op = "refresh"
  /\ fs = "unlistable"
  /\ last.held > 0
  /\ ~last.threw
  /\ cache = <<>>

\* The directories that yield no valid record: missing, empty, or holding
\* only malformed files.
BarrenDirs == {"missing", "empty", "malformed"}

\* C18: a query on an index loaded from a directory that yields no valid
\* record does not throw: the calls that return a list return the empty
\* list, getByDate and getBySlug return null, and getPaginated returns no
\* items with totalItems 0.
C18_EmptyIndexAnswers ==
  (/\ last.op \in QueryOps
   /\ fs \in BarrenDirs
   /\ (~config.cache \/ last.held = 0)) =>
    /\ ~last.threw
    /\ cache = <<>>
    /\ last.op \in ListOps => last.ret.items = <<>>
    /\ last.op \in {"getByDate", "getBySlug"} => last.ret = Null
    /\ last.op = "getPaginated" =>
         /\ last.ret.items = <<>>
         /\ last.ret.pagination.totalItems = 0

\* C18: getByDate('2025-01-20') on a directory of malformed files only
\* returned null.
C18_Witness ==
  /\ last.op = "getByDate"
  /\ last.arg.blogDate = StringDate(d20)
  /\ fs = "malformed"
  /\ cache = <<>>
  /\ last.ret = Null

\* The readable HTML files of the directory whose content does not begin
\* with a front-matter block.
PlainEntries == {e \in HtmlEntries : e.readable /\ ~e.content.hasFm}

\* The configuration with the HTML-comment strategy in place of its own.
WithHtmlComments == [config EXCEPT !.metadataFormat = "html-comment"]

NoTitleMetadata(e) ==
  /\ ~Truthy(ExtractMetadata(config.metadataFormat, e.content).title)
  /\ kTitle \notin DOMAIN ExtractMetadata(config.metadataFormat, e.content).extra

\* The file gives no description.
NoDescMetadata(e) ==
  /\ ~Truthy(ExtractMetadata(config.metadataFormat, e.content).desc)
  /\ kDesc \notin DOMAIN ExtractMetadata(config.metadataFormat, e.content).extra

\* C20: every record of the collection has a title of at least one
\* character and a desc that is defined; the record of a file that gives no
\* title has the title 'Untitled', and the record of a file that gives no
\* description has the desc 'No description available'.
C20_TitleAndDesc ==
  /\ \A i \in 1..Len(cache) :
       /\ cache[i].title # <<>>
       /\ cache[i].title # Undefined
       /\ cache[i].desc # Undefined
  /\ \A e \in {h \in HtmlEntries : h.readable} :
       /\ NoTitleMetadata(e) =>
            parseFile(config.metadataFormat, e.name, e.content).title
              = <<"U","n","t","i","t","l","e","d">>
       /\ NoDescMetadata(e) =>
            parseFile(config.metadataFormat, e.name, e.content).desc
              = <<"N","o"," ","d","e","s","c","r","i","p","t","i","o","n",
                  " ","a","v","a","i","l","a","b","l","e">>

\* C21: in every getPaginated result hasNext says that the current page is
\* before the last one, and nextPage is then the page after it and null
\* otherwise; hasPrev says that the current page is after the first one, and
\* prevPage is then the page before it and null otherwise.
C21_NextAndPrev ==
  last.op = "getPaginated" =>
    LET info == last.ret.pagination
    IN /\ info.hasNext = (info.currentPage < info.totalPages)
       /\ info.nextPage = IF info.hasNext THEN <<info.currentPage + 1>> ELSE <<>>
       /\ info.hasPrev = (info.currentPage > 1)
       /\ info.prevPage = IF info.hasPrev THEN <<info.currentPage - 1>> ELSE <<>>
       /\ info.currentPage = 1 => ~info.hasPrev /\ info.prevPage = <<>>
       /\ info.currentPage >= info.totalPages =>
            ~info.hasNext /\ info.nextPage = <<>>

\* C21: page 2 of 3 has both neighbours: nextPage 3 and prevPage 1.
C21_Witness ==
  /\ last.op = "getPaginated"
  /\ last.ret.pagination.currentPage = 2
  /\ last.ret.pagination.totalPages = 3
  /\ last.ret.pagination.nextPage = <<3>>
  /\ last.ret.pagination.prevPage = <<1>>

\* C22: as claimed: GET /api/posts with a page parameter reports a current
\* page that is at most totalPages.
C22_AtMostTotalPages ==
  (last.op = "apiPosts" /\ last.arg.page # <<>>) =>
    last.ret.pagination.currentPage <= last.ret.pagination.totalPages

\* C22: GET /api/posts with a page parameter reports a current page within
\* 1..totalPages when the posts it selected are not none; when they are
\* none it reports page 1 of 0.
C22_WithinPagesOrFirst ==
  (last.op = "apiPosts" /\ last.arg.page # <<>>) =>
    LET info == last.ret.pagination
    IN /\ ~last.threw
       /\ info.totalPages * info.perPage >= info.totalItems
       /\ (info.totalPages - 1) * info.perPage < info.totalItems
       /\ IF info.totalItems > 0
          THEN info.currentPage \in 1..info.totalPages
          ELSE info.currentPage = 1 /\ info.totalPages = 0

\* C22: GET /api/posts?page=99&per_page=2 on three posts reports page 2 of 2.
C22_Witness ==
  /\ last.op = "apiPosts"
  /\ last.arg.page = s99
  /\ last.ret.pagination.totalItems = 3
  /\ last.ret.pagination.totalPages = 2
  /\ last.ret.pagination.currentPage = 2

\* C23: with a metadataFormat other than 'html-comment' and 'front-matter',
\* parseFile gives for every file the record it gives with 'html-comment',
\* and a refresh leaves the collection that 'html-comment' leaves.
C23_UnknownFormatFallsBack ==
  config.metadataFormat \notin {"html-comment", "front-matter"} =>
    /\ \A e \in {h \in HtmlEntries : h.readable} :
         parseFile(config.metadataFormat, e.name, e.content)
           = parseFile("html-comment", e.name, e.content)
    /\ last.op = "refresh" =>
         cache = refresh(WithHtmlComments, fs, NewBlogCache, now).cache

\* The calls that only read the index.
ReadOps == QueryOps \cup {"getStats", "apiPosts"}

C25_AtomicReplace ==
  [][/\ Running' =>
          /\ cache' = last'.before
          /\ last'.seen \subseteq {last'.before}
     /\ cache' # cache =>
          /\ ~Running'
          /\ last'.op = "refresh"
          /\ cache' = refresh(config, fs, Index, now).cache]_vars

\* C25: a refresh has parsed files, one of them in vain, a reader has looked
\* at the collection, and the list in progress differs from the collection.
C25_Witness ==
  /\ Running
  /\ last.stage = "map"
  /\ Null \in Elements(last.work)
  /\ last.seen = {cache}
  /\ cache # <<>>
  /\ last.work # cache

\* C26: between two refreshes the records of the collection stay as they
\* were built: a caller's write to a record it got from a query changes no
\* record of the collection, and neither does a query that does not refresh.
C26_RecordsStayAsBuilt ==
  [][/\ last'.op = "write" => cache' = cache
     /\ (last'.op \in QueryOps /\ config.cache /\ cache # <<>>) =>
          cache' = cache]_vars

\* The record parseFile builds from the core values alone, nothing merged.
CoreOnly(format, e) ==
  BlogRecord(e.name, e.content,
             [ExtractMetadata(format, e.content) EXCEPT
                !.extra = [k \in {} |-> <<>>]])

\* C27: no extra key that the extractor finds in a file has the name of a
\* core field, so the record parseFile returns has the core values it
\* computed: merging the extra keys replaces none of them.
C27_ExtraKeysApart ==
  \A e \in {h \in HtmlEntries : h.readable} :
    /\ DOMAIN ExtractMetadata(config.metadataFormat, e.content).extra
         \cap CoreFields = {}
    /\ \A r \in {parseFile(config.metadataFormat, e.name, e.content)} :
         \A c \in {CoreOnly(config.metadataFormat, e)} :
           /\ r.fileName = c.fileName /\ r.filePath = c.filePath
           /\ r.date = c.date /\ r.title = c.title /\ r.desc = c.desc
           /\ r.content = c.content /\ r.year = c.year
           /\ r.month = c.month /\ r.day = c.day /\ r.slug = c.slug

\* C28: isValidDate is true of exactly the strings of the form YYYY-MM-DD
\* that name a day of the calendar, whatever the four digits of the year,
\* and false of everything else, the 'No date found' sentinel included.
C28_ValidExactlyCalendarDates ==
  \A e \in {h \in HtmlEntries : h.readable} :
    \A r \in {parseFile(config.metadataFormat, e.name, e.content)} :
      /\ isValidDate(r.date) = RealCalendarDate(r.date)
      /\ last.op = "refresh" =>
           (RealCalendarDate(r.date) => r \in Elements(cache))

\* The characters a slug may hold besides the hyphen.
SlugChars == WordChars \ Elements(UpperSeq)

\* A slug as claimed: lower-case word characters and single hyphens, with no
\* hyphen at either end.
CleanSlug(s) ==
  /\ \A i \in 1..Len(s) : s[i] \in SlugChars \cup {"-"}
  /\ \A i \in 1..(Len(s) - 1) : ~(s[i] = "-" /\ s[i + 1] = "-")
  /\ s # <<>> => (s[1] # "-" /\ s[Len(s)] # "-")

\* C29: the slug of every record is generateSlug of its title, or of its
\* file name when the file gives no title, and it is lower-case, made of
\* word characters and single hyphens, without a hyphen at either end.
C29_CleanSlugs ==
  \A i \in 1..Len(cache) :
    (kSlug \notin DOMAIN ExtractMetadata(config.metadataFormat,
                                         cache[i].content).extra) =>
      /\ cache[i].slug \in {generateSlug(cache[i].title),
                            generateSlug(cache[i].fileName)}
      /\ CleanSlug(cache[i].slug)

\* C30: a call of refresh that returns leaves the last-refresh time at the
\* time of the call, whatever it found, the directory missing included.
C30_RefreshStampsTime ==
  (last.op = "refresh" /\ ~last.threw) => lastRefresh = <<now>>

====
